---- MODULE Spec2Model ----
(***************************************************************************)
(* Model of the Arabic-alphabet course client (src/frontend/src/App.js,    *)
(* latest version of the component tree, lines 2917-5217) together with    *)
(* the REST backend it talks to.  The backend is not part of the source    *)
(* tree; its progress store and quiz engine are modelled from the design   *)
(* specification (sections 3, 4.2 and 5).                                  *)
(***************************************************************************)
EXTENDS Integers, Sequences, FiniteSets, TLC

VARIABLES
    page,            \* current route: "dashboard" | "lesson" | "quiz"
    letterId,        \* :letterId of the current route (0 on the dashboard)
    store,           \* backend Progress Store: set of ProgressRecords
    lessons,         \* Dashboard state `lessons`
    progress,        \* Dashboard state `progress` (array of ProgressRecords)
    loading,         \* Dashboard state `loading`
    letter,          \* LessonPlayer / QuizPage state `letter` (0 = null)
    redirectTimer,   \* LessonPlayer: the 1s setTimeout of markAsCompleted is armed
    options,         \* QuizPage state `options` (array of letter ids)
    selectedAnswer,  \* QuizPage state `selectedAnswer` (0 = null)
    showResult,      \* QuizPage state `showResult`
    result,          \* QuizPage state `result` (NoResult = null)
    showRetry,       \* QuizPage state `showRetry`
    isLocked,        \* Dashboard render: `isLocked` of each letter card
    fetches,         \* in-flight fetchLetter / fetchQuizData requests of the page
    answerRequests,  \* in-flight POST /quiz/answer bodies (selected letter ids)
    auth,            \* AuthProvider state, localStorage, axios header, timers
    chat,            \* AITutorChat state and its in-flight /ai-tutor request
    audio,           \* audio playback state, the TTS cache and provider
    review,          \* ReviewMode state
    nudge,           \* NotificationBanner state, its 4h timer and localStorage flag
    recorder         \* VoiceRecorder state, its requests and the feedback shown

vars == << page, letterId, store, lessons, progress, loading, letter,
           redirectTimer, options, selectedAnswer, showResult, result,
           showRetry, isLocked, fetches, answerRequests, auth, chat, audio,
           review, nudge, recorder >>

\* the state of the course pages
courseVars == << page, letterId, store, lessons, progress, loading, letter,
                 redirectTimer, options, selectedAnswer, showResult, result,
                 showRetry, isLocked, fetches >>

\* the state of the components outside the course pages
otherVars == << answerRequests, auth, chat, audio, review >>

\* the state of the components a page load mounts afresh
uiVars == << nudge, recorder >>

dashVars == << lessons, progress, loading, isLocked >>
quizVars == << options, selectedAnswer, showResult, result, showRetry >>

----------------------------------------------------------------------------
(* Bounds *)

\* size of the letter catalog (28 in the deployed application)
NumLetters == 4
\* cap on ProgressRecord.attempts in the single-quiz specification
MaxAttempts == 3
\* cap on ProgressRecord.attempts in the whole-course specification
CourseAttempts == 2
\* cap on the fetchQuizData requests in flight at once
MaxFetch == 1

Letters == 1..NumLetters

----------------------------------------------------------------------------
(* Backend: progress store and quiz engine *)

MinScoreRequired == 80
BaseScore == 100
PenaltyStep == 10
ScoreFloor == 70
QuizXp == 50

Max(a, b) == IF a >= b THEN a ELSE b

NoRecord == [letter_id |-> 0]
NoResult == [none |-> TRUE]

\* the record the store holds for a letter, NoRecord when there is none
RecordOf(st, id) ==
    IF \E r \in st : r.letter_id = id
    THEN CHOOSE r \in st : r.letter_id = id
    ELSE NoRecord

\* (user, letter_id) is unique: writing a record replaces the one of that letter
Upsert(st, rec) == {r \in st : r.letter_id # rec.letter_id} \cup {rec}

PriorAttempts(st, id) ==
    IF RecordOf(st, id) = NoRecord THEN 0 ELSE RecordOf(st, id).attempts

AlreadyCompleted(st, id) ==
    IF RecordOf(st, id) = NoRecord THEN FALSE ELSE RecordOf(st, id).completed

PriorXp(st, id) ==
    IF RecordOf(st, id) = NoRecord THEN 0 ELSE RecordOf(st, id).xp_earned

\* variant: an incorrect answer keeps partial credit
ComputeScorePartialCredit(correct, priorAttempts) ==
    IF correct
    THEN Max(BaseScore - PenaltyStep * priorAttempts, ScoreFloor)
    ELSE BaseScore - PenaltyStep

\* variant: the penalty counts the attempt being made
ComputeScoreOffByOne(correct, priorAttempts) ==
    IF correct
    THEN Max(BaseScore - PenaltyStep * (priorAttempts + 1), ScoreFloor)
    ELSE 0

\* variant: no penalty for retries
ComputeScoreNoPenalty(correct, priorAttempts) ==
    IF correct THEN BaseScore ELSE 0

\* binary base score with a fixed per-retry penalty on the ceiling
ComputeScore(correct, priorAttempts) ==
    IF correct
    THEN Max(BaseScore - PenaltyStep * priorAttempts, ScoreFloor)
    ELSE 0

CanProceed(score) == score >= MinScoreRequired

\* submitAnswer(targetLetterId, selectedLetterId, priorAttempts)
submitAnswer(target, selected, priorAttempts, alreadyCompleted) ==
    LET correct == (selected = target)
        score   == ComputeScore(correct, priorAttempts)
        can     == CanProceed(score)
    IN  [ correct            |-> correct,
          score              |-> score,
          xp_earned          |-> IF can /\ ~alreadyCompleted THEN QuizXp ELSE 0,
          can_proceed        |-> can,
          min_score_required |-> MinScoreRequired ]

\* the ProgressRecord written by a quiz submission
QuizRecord(st, id, res) ==
    [ letter_id |-> id,
      completed |-> AlreadyCompleted(st, id) \/ res.can_proceed,
      score     |-> res.score,
      attempts  |-> PriorAttempts(st, id) + 1,
      xp_earned |-> PriorXp(st, id) + res.xp_earned ]

\* GET /progress: the user's records, in letter order
RECURSIVE ProgressFrom(_, _)
ProgressFrom(st, id) ==
    IF id > NumLetters THEN << >>
    ELSE (IF RecordOf(st, id) = NoRecord THEN << >> ELSE << RecordOf(st, id) >>)
         \o ProgressFrom(st, id + 1)

GetProgress(st) == ProgressFrom(st, 1)

\* GET /lessons: the catalog, in canonical order
GetLessons == [i \in Letters |-> i]

----------------------------------------------------------------------------
(* Dashboard *)

\* progress.find(p => p.letter_id === letterId)
getProgressForLetter(prog, id) ==
    LET hits == {i \in 1..Len(prog) : prog[i].letter_id = id}
    IN  IF hits = {} THEN NoRecord
        ELSE prog[CHOOSE i \in hits : \A j \in hits : i <= j]

\* variant: any record of the previous letter unlocks, completed or not
canAccessLetterAnyRecord(prog, id) ==
    IF id = 1 THEN TRUE
    ELSE getProgressForLetter(prog, id - 1) # NoRecord

canAccessLetter(prog, id) ==
    IF id = 1 THEN TRUE
    ELSE LET prevLetterProgress == getProgressForLetter(prog, id - 1)
         IN  IF prevLetterProgress = NoRecord THEN FALSE
             ELSE prevLetterProgress.completed

\* the letter grid: const isLocked = !canAccessLetter(letter.id), per card
RenderLocked(ls, prog) ==
    [n \in {ls[i] : i \in 1..Len(ls)} |-> ~canAccessLetter(prog, n)]

Unmounted == << >>

\* NotificationBanner before the Dashboard renders it; stored is the
\* localStorage entry 'nudge_dismissed', which outlives the page
NudgeUnmounted(stored) ==
    [ mounted   |-> FALSE,
      dismissed |-> FALSE,     \* state `dismissed`
      nudge     |-> FALSE,     \* state `nudge` is a non-empty text
      fetching  |-> FALSE,     \* GET /personalize/nudges in flight
      timer     |-> FALSE,     \* the setTimeout of handleDismiss is armed
      stored    |-> stored ]

\* NotificationBanner mounts: useState reads localStorage, the effect calls
\* fetchNudge unless dismissed
BannerMount(n) ==
    [ mounted   |-> TRUE,
      dismissed |-> n.stored,
      nudge     |-> FALSE,
      fetching  |-> ~n.stored,
      timer     |-> n.timer,
      stored    |-> n.stored ]

\* no feedback received yet: LessonPlayer state `voiceFeedback` is null
NoFeedback == [kind |-> "none", match |-> FALSE, confidence |-> 0]

\* VoiceRecorder as it mounts
RecorderIdle ==
    [ isRecording   |-> FALSE,
      isProcessing  |-> FALSE,
      mediaRequests |-> 0,          \* getUserMedia calls awaited
      uploads       |-> 0,          \* POST /ai-tutor/voice-feedback in flight
      voiceFeedback |-> NoFeedback ]

\* a full page load: timers and component state of the old page are gone,
\* localStorage stays
PageLoad ==
    /\ nudge' = NudgeUnmounted(nudge.stored)
    /\ recorder' = RecorderIdle

\* useState defaults of an unmounted / freshly mounted Dashboard
DashReset ==
    /\ lessons' = << >>
    /\ progress' = << >>
    /\ loading' = TRUE
    /\ isLocked' = Unmounted

\* useState defaults of an unmounted / freshly mounted QuizPage
QuizReset ==
    /\ options' = << >>
    /\ selectedAnswer' = 0
    /\ showResult' = FALSE
    /\ result' = NoResult
    /\ showRetry' = FALSE

\* window.location.href = '/': full page load of the Dashboard route
EnterDashboard ==
    /\ page' = "dashboard"
    /\ letterId' = 0
    /\ letter' = 0
    /\ redirectTimer' = FALSE
    /\ fetches' = 0
    /\ DashReset
    /\ QuizReset
    /\ PageLoad

\* window.location.href = `/lesson/${id}`: page load, fetchLetter issued on mount
EnterLesson(id) ==
    /\ page' = "lesson"
    /\ letterId' = id
    /\ letter' = 0
    /\ redirectTimer' = FALSE
    /\ fetches' = 1
    /\ DashReset
    /\ QuizReset
    /\ PageLoad

\* window.location.href = `/quiz/${id}`: page load, fetchQuizData issued on mount
EnterQuiz(id) ==
    /\ page' = "quiz"
    /\ letterId' = id
    /\ letter' = 0
    /\ redirectTimer' = FALSE
    /\ fetches' = 1
    /\ DashReset
    /\ QuizReset
    /\ PageLoad

\* Dashboard.fetchData, both requests answered
FetchData ==
    /\ page = "dashboard"
    /\ loading
    /\ lessons' = GetLessons
    /\ progress' = GetProgress(store)
    /\ loading' = FALSE
    /\ isLocked' = RenderLocked(GetLessons, GetProgress(store))
    /\ nudge' = BannerMount(nudge)
    /\ UNCHANGED << otherVars, recorder, page, letterId, store, letter, redirectTimer, fetches, quizVars >>

\* Dashboard.fetchData, a request failed: catch, then finally
FetchDataFailed ==
    /\ page = "dashboard"
    /\ loading
    /\ loading' = FALSE
    /\ isLocked' = RenderLocked(lessons, progress)
    /\ nudge' = BannerMount(nudge)
    /\ UNCHANGED << otherVars, recorder, page, letterId, store, lessons, progress, letter,
                    redirectTimer, fetches, quizVars >>

\* letter card onClick
ClickLetterCard(id) ==
    /\ page = "dashboard"
    /\ ~loading
    /\ id \in DOMAIN isLocked
    /\ ~isLocked[id]
    /\ EnterLesson(id)
    /\ UNCHANGED << otherVars, store >>

----------------------------------------------------------------------------
(* LessonPlayer *)

\* LessonPlayer.fetchLetter answered
FetchLetter ==
    /\ page = "lesson"
    /\ fetches > 0
    /\ letter' = letterId
    /\ fetches' = fetches - 1
    /\ UNCHANGED << otherVars, uiVars, page, letterId, store, redirectTimer, dashVars, quizVars >>

\* LessonPlayer.fetchLetter failed: the page keeps its spinner
FetchLetterFailed ==
    /\ page = "lesson"
    /\ fetches > 0
    /\ fetches' = fetches - 1
    /\ UNCHANGED << otherVars, uiVars, page, letterId, store, letter, redirectTimer, dashVars, quizVars >>

\* the body markAsCompleted posts to /progress
CompletionPayload(id) ==
    [ letter_id |-> id,
      completed |-> TRUE,
      score     |-> 100,
      attempts  |-> 1,
      xp_earned |-> 50 ]

\* "Complete Lesson": the POST succeeds, the redirect timer is armed
\* (a failed POST only raises a toast and changes no state)
markAsCompleted ==
    /\ page = "lesson"
    /\ letter # 0
    /\ store' = Upsert(store, CompletionPayload(letterId))
    /\ redirectTimer' = TRUE
    /\ UNCHANGED << otherVars, uiVars, page, letterId, letter, fetches, dashVars, quizVars >>

\* the setTimeout callback of markAsCompleted
RedirectToQuiz ==
    /\ page = "lesson"
    /\ redirectTimer
    /\ EnterQuiz(letterId)
    /\ UNCHANGED << otherVars, store >>

\* Previous / Next buttons
navigateToLetter(direction) ==
    /\ page = "lesson"
    /\ letter # 0
    /\ direction = "prev" => letterId # 1
    /\ direction = "next" => letterId # NumLetters
    /\ LET newId == IF direction = "next" THEN letterId + 1 ELSE letterId - 1
       IN  /\ newId >= 1
           /\ newId <= NumLetters
           /\ EnterLesson(newId)
    /\ UNCHANGED << otherVars, store >>

\* header button "Dashboard"
BackToHome ==
    /\ page = "lesson"
    /\ letter # 0
    /\ EnterDashboard
    /\ UNCHANGED << otherVars, store >>

----------------------------------------------------------------------------
(* QuizPage *)

\* number of wrong letters kept: .slice(0, 3)
NumDecoys == 3

\* size of a catalog that holds more letters than one quiz shows
LargeCatalogSize == 5

\* GET /lessons over that catalog
LargeCatalog == [i \in 1..LargeCatalogSize |-> i]

Min(a, b) == IF a <= b THEN a ELSE b

Range(s) == {s[i] : i \in 1..Len(s)}

\* array.sort(() => 0.5 - Math.random()): some reordering of the array
Shuffles(s) ==
    {[i \in 1..Len(s) |-> s[p[i]]] : p \in Permutations(1..Len(s))}

\* variant: the target letter is not filtered out of the wrong letters
OtherLettersUnfiltered(all, id) == all

\* allLetters.filter(l => l.id !== letterId)
OtherLetters(all, id) == SelectSeq(all, LAMBDA l : l # id)

\* .slice(0, n)
Slice(s, n) == SubSeq(s, 1, Min(n, Len(s)))

\* every option array fetchQuizData can build for the letter
QuizOptions(all, id) ==
    UNION { Shuffles(<< id >> \o Slice(wrong, NumDecoys)) :
            wrong \in Shuffles(OtherLetters(all, id)) }

\* QuizPage.fetchQuizData answered with the catalog allLetters: setLetter,
\* setOptions; selectedAnswer is left as it is
fetchQuizDataFrom(allLetters) ==
    /\ page = "quiz"
    /\ fetches > 0
    /\ letter' = letterId
    /\ \E quizOptions \in QuizOptions(allLetters, letterId) :
           options' = quizOptions
    /\ fetches' = fetches - 1
    /\ UNCHANGED << otherVars, uiVars, page, letterId, store, redirectTimer, dashVars,
                    selectedAnswer, showResult, result, showRetry >>

\* QuizPage.fetchQuizData answered with the catalog of GET /lessons
fetchQuizData == fetchQuizDataFrom(GetLessons)

\* QuizPage.fetchQuizData failed: toast only
fetchQuizDataFailed ==
    /\ page = "quiz"
    /\ fetches > 0
    /\ fetches' = fetches - 1
    /\ UNCHANGED << otherVars, uiVars, page, letterId, store, letter, redirectTimer, dashVars, quizVars >>

\* the question card is on screen
QuestionShown == page = "quiz" /\ letter # 0 /\ Len(options) > 0 /\ ~showResult

\* the result card is on screen
ResultShown == page = "quiz" /\ letter # 0 /\ Len(options) > 0 /\ showResult

\* option card onClick
SelectAnswer(id) ==
    /\ QuestionShown
    /\ id \in Range(options)
    /\ selectedAnswer' = id
    /\ UNCHANGED << otherVars, uiVars, page, letterId, store, letter, redirectTimer, fetches, dashVars,
                    options, showResult, result, showRetry >>

\* variant: the negation is dropped
RetryShownInverted(res) == res.can_proceed

\* setShowRetry(!response.data.can_proceed)
RetryShown(res) == ~res.can_proceed

\* QuizPage.submitAnswer with POST /quiz/answer answered
\* (a failed POST only raises a toast and changes no state)
SubmitAnswer(cap) ==
    /\ QuestionShown
    /\ selectedAnswer # 0
    /\ PriorAttempts(store, letterId) < cap
    /\ LET res == submitAnswer(letterId, selectedAnswer,
                               PriorAttempts(store, letterId),
                               AlreadyCompleted(store, letterId))
       IN  /\ store' = Upsert(store, QuizRecord(store, letterId, res))
           /\ result' = res
           /\ showResult' = TRUE
           /\ showRetry' = RetryShown(res)
    /\ UNCHANGED << otherVars, uiVars, page, letterId, letter, redirectTimer, fetches, dashVars,
                    options, selectedAnswer >>

\* "Retry Quiz"
retryQuiz ==
    /\ ResultShown
    /\ ~result.can_proceed
    /\ fetches < MaxFetch
    /\ selectedAnswer' = 0
    /\ showResult' = FALSE
    /\ showRetry' = FALSE
    /\ result' = NoResult
    /\ fetches' = fetches + 1
    /\ UNCHANGED << otherVars, uiVars, page, letterId, store, letter, redirectTimer, dashVars, options >>

\* "Next Letter" / "Complete Course" / "Review Lesson"
nextAction ==
    /\ ResultShown
    /\ IF result.can_proceed
       THEN IF letterId < NumLetters
            THEN EnterLesson(letterId + 1)
            ELSE EnterDashboard
       ELSE EnterLesson(letterId)
    /\ UNCHANGED << otherVars, store >>

----------------------------------------------------------------------------
(* QuizPage.submitAnswer as the browser runs it: the click sends the request *)
(* and returns at the await; the rest of the handler runs on the response    *)

\* cap on the POST /quiz/answer requests in flight at once
MaxPending == 2
\* cap on the submissions of one quiz page when requests overlap
SubmitAttempts == 2

\* s without its i-th element
RemoveAt(s, i) == SubSeq(s, 1, i - 1) \o SubSeq(s, i + 1, Len(s))

\* variant: the handler does not check selectedAnswer
SendAnswerUnchecked ==
    /\ QuestionShown
    /\ Len(answerRequests) < MaxPending
    /\ PriorAttempts(store, letterId) + Len(answerRequests) < SubmitAttempts
    /\ answerRequests' = Append(answerRequests, selectedAnswer)
    /\ UNCHANGED << courseVars, uiVars, auth, chat, audio, review >>

\* "Submit Answer" onClick: if (!selectedAnswer) return; axios.post(...)
\* the button stays enabled until a response sets showResult
SendAnswer ==
    /\ QuestionShown
    /\ selectedAnswer # 0
    /\ Len(answerRequests) < MaxPending
    /\ PriorAttempts(store, letterId) + Len(answerRequests) < SubmitAttempts
    /\ answerRequests' = Append(answerRequests, selectedAnswer)
    /\ UNCHANGED << courseVars, uiVars, auth, chat, audio, review >>

\* POST /quiz/answer handled and answered: setResult, setShowResult,
\* setShowRetry run whatever the page shows by then
AnswerResponse(i) ==
    /\ page = "quiz"
    /\ i \in 1..Len(answerRequests)
    /\ LET res == submitAnswer(letterId, answerRequests[i],
                               PriorAttempts(store, letterId),
                               AlreadyCompleted(store, letterId))
       IN  /\ store' = Upsert(store, QuizRecord(store, letterId, res))
           /\ result' = res
           /\ showResult' = TRUE
           /\ showRetry' = RetryShown(res)
    /\ answerRequests' = RemoveAt(answerRequests, i)
    /\ UNCHANGED << uiVars, page, letterId, letter, redirectTimer, fetches, dashVars,
                    options, selectedAnswer, auth, chat, audio, review >>

\* POST /quiz/answer failed: catch, toast only
AnswerFailed(i) ==
    /\ page = "quiz"
    /\ i \in 1..Len(answerRequests)
    /\ answerRequests' = RemoveAt(answerRequests, i)
    /\ UNCHANGED << courseVars, uiVars, auth, chat, audio, review >>

----------------------------------------------------------------------------
(* Review queue: backend policy (design specification 4.3) and ReviewMode *)

\* number of letters the review queue is computed over
ReviewCatalog == 6

ComfortableThreshold == 90
StalenessWindow == 7

\* the day of the query and the last_updated days a record can carry
Now == 30
RecentDay == 29
OldDay == 20
OlderDay == 10

\* the score of a letter's record: completed letters 1-5 score 100, 95, 70,
\* 85, 60; the pattern repeats with a second 70 from letter 6 on
ReviewScores == << 100, 95, 70, 85, 60, 70 >>

ScoreOfLetter(id) == ReviewScores[((id - 1) % Len(ReviewScores)) + 1]

\* a completed record as a passed quiz leaves it, with its timestamp
ReviewedRecord(id, day) ==
    [ letter_id |-> id, completed |-> TRUE, score |-> ScoreOfLetter(id),
      attempts |-> 1, xp_earned |-> QuizXp, last_updated |-> day ]

\* a record of a failed quiz, never completed and long untouched
OpenRecord(id) ==
    [ letter_id |-> id, completed |-> FALSE, score |-> 0,
      attempts |-> 1, xp_earned |-> 0, last_updated |-> OlderDay ]

FailsScore(r) == r.score < ComfortableThreshold

Stale(r, now) == now - r.last_updated > StalenessWindow

\* variant: every record is a candidate
ReviewCandidatesAnyRecord(st, now) ==
    {r \in st : FailsScore(r) \/ Stale(r, now)}

\* only completed letters are candidates; one qualifies on score or staleness
ReviewCandidates(st, now) ==
    {r \in st : r.completed /\ (FailsScore(r) \/ Stale(r, now))}

\* variant: catalog order
ReviewBeforeCatalogOrder(a, b) == a.letter_id < b.letter_id

\* a is queued before b: score failures first, then lowest score, then
\* oldest last_updated (letter order last, to make the order total)
ReviewBefore(a, b) ==
    IF FailsScore(a) # FailsScore(b) THEN FailsScore(a)
    ELSE IF a.score # b.score THEN a.score < b.score
    ELSE IF a.last_updated # b.last_updated THEN a.last_updated < b.last_updated
    ELSE a.letter_id < b.letter_id

RECURSIVE SortRecords(_)
SortRecords(rs) ==
    IF rs = {} THEN << >>
    ELSE LET first == CHOOSE a \in rs : \A b \in rs \ {a} : ReviewBefore(a, b)
         IN  << first >> \o SortRecords(rs \ {first})

ReviewItem(r, now) ==
    [ unit_id |-> r.letter_id,
      reason  |-> IF FailsScore(r) THEN "low_score" ELSE "stale",
      score   |-> r.score,
      last_updated |-> r.last_updated ]

\* computeReviewQueue(progressSet, now)
computeReviewQueue(st, now) ==
    LET sorted == SortRecords(ReviewCandidates(st, now))
    IN  [i \in 1..Len(sorted) |-> ReviewItem(sorted[i], now)]

\* useState defaults of ReviewMode, no toast raised
ReviewUnmounted ==
    [ loading       |-> TRUE,
      reviewItems   |-> << >>,
      currentReview |-> 0,        \* unit_id of the item under review, 0 = null
      quizOptions   |-> << >>,    \* quizData.options, << >> while quizData is null
      selectedAnswer |-> 0,
      showResult    |-> FALSE,
      toast         |-> "none" ]

\* ReviewMode.fetchReviewQueue answered: setReviewItems, then finally
fetchReviewQueue ==
    /\ review.loading
    /\ review' = [review EXCEPT !.loading = FALSE,
                                !.reviewItems = computeReviewQueue(store, Now)]
    /\ UNCHANGED << courseVars, uiVars, answerRequests, auth, chat, audio >>

\* ReviewMode.fetchReviewQueue failed: toast, then finally
fetchReviewQueueFailed ==
    /\ review.loading
    /\ review' = [review EXCEPT !.loading = FALSE,
                                !.toast = "Failed to load review queue"]
    /\ UNCHANGED << courseVars, uiVars, answerRequests, auth, chat, audio >>

\* number of wrong options kept by startReview: .slice(0, 2)
NumReviewDecoys == 2

\* GET /lessons over the letters the review queue is computed over
ReviewLessons == [i \in 1..ReviewCatalog |-> i]

\* every option array startReview can build for the letter
ReviewOptions(all, id) ==
    UNION { Shuffles(<< id >> \o Slice(wrong, NumReviewDecoys)) :
            wrong \in Shuffles(OtherLetters(all, id)) }

\* "Start Review" on a queue item, both requests answered:
\* setCurrentReview, setQuizData
startReview(i) ==
    /\ ~review.loading
    /\ review.currentReview = 0
    /\ i \in 1..Len(review.reviewItems)
    /\ \E quizOptions \in ReviewOptions(ReviewLessons, review.reviewItems[i].unit_id) :
           review' = [review EXCEPT
                        !.currentReview = review.reviewItems[i].unit_id,
                        !.quizOptions = quizOptions]
    /\ UNCHANGED << courseVars, uiVars, answerRequests, auth, chat, audio >>

\* "Start Review", a request failed: toast only
startReviewFailed(i) ==
    /\ ~review.loading
    /\ review.currentReview = 0
    /\ i \in 1..Len(review.reviewItems)
    /\ review' = [review EXCEPT !.toast = "Failed to start review"]
    /\ UNCHANGED << courseVars, uiVars, answerRequests, auth, chat, audio >>

\* option card onClick of the mini-quiz
SelectReviewAnswer(id) ==
    /\ review.currentReview # 0
    /\ ~review.showResult
    /\ id \in Range(review.quizOptions)
    /\ id # review.selectedAnswer
    /\ review' = [review EXCEPT !.selectedAnswer = id]
    /\ UNCHANGED << courseVars, uiVars, answerRequests, auth, chat, audio >>

\* ReviewMode.submitReviewAnswer with POST /review/complete answered:
\* setReviewResult, setShowResult
submitReviewAnswer ==
    /\ review.selectedAnswer # 0
    /\ review.currentReview # 0
    /\ ~review.showResult
    /\ review' = [review EXCEPT !.showResult = TRUE]
    /\ UNCHANGED << courseVars, uiVars, answerRequests, auth, chat, audio >>

\* ReviewMode.completeReview with the fetchReviewQueue it starts answered
completeReview ==
    /\ review.currentReview # 0
    /\ review.showResult
    /\ review' = [review EXCEPT
                     !.currentReview = 0,
                     !.quizOptions = << >>,
                     !.selectedAnswer = 0,
                     !.showResult = FALSE,
                     !.reviewItems = computeReviewQueue(store, Now)]
    /\ UNCHANGED << courseVars, uiVars, answerRequests, auth, chat, audio >>

----------------------------------------------------------------------------
(* AITutorChat *)

\* cap on the length of the typed message
MaxMessageLen == 2
\* cap on the length of chatHistory
MaxChat == 4

Chars == {" ", "a"}

Messages == UNION {[1..n -> Chars] : n \in 0..MaxMessageLen}

\* String.prototype.trim
RECURSIVE TrimLeft(_)
TrimLeft(m) ==
    IF m = << >> THEN << >>
    ELSE IF Head(m) = " " THEN TrimLeft(Tail(m)) ELSE m

RECURSIVE TrimRight(_)
TrimRight(m) ==
    IF m = << >> THEN << >>
    ELSE IF m[Len(m)] = " " THEN TrimRight(SubSeq(m, 1, Len(m) - 1)) ELSE m

Trim(m) == TrimRight(TrimLeft(m))

\* useState defaults of AITutorChat; nothing in flight, and the backend's
\* log of ChatExchanges is empty
ChatClosed ==
    [ message       |-> << >>,
      isLoading     |-> FALSE,
      chatHistory   |-> << >>,
      isRecording   |-> FALSE,
      isProcessing  |-> FALSE,
      tutorRequests |-> << >>,
      exchanges     |-> 0 ]

UserEntry(content, isVoice) ==
    [ type |-> "user", content |-> content, isVoice |-> isVoice ]

AiEntry == [ type |-> "ai" ]

ApologyEntry ==
    [ type |-> "error",
      content |-> "Sorry, I encountered an error. Please try again." ]

\* the entries the requests and recordings under way will still append
ChatReserved ==
    Len(chat.tutorRequests) + (IF chat.isProcessing THEN 2 ELSE 0)

\* Textarea onChange, handleSuggestionClick
TypeMessage(m) ==
    /\ m # chat.message
    /\ chat' = [chat EXCEPT !.message = m]
    /\ UNCHANGED << courseVars, uiVars, answerRequests, auth, audio, review >>

\* AITutorChat.sendMessage up to the await
sendMessage ==
    /\ Trim(chat.message) # << >>
    /\ ~chat.isLoading
    /\ Len(chat.chatHistory) + ChatReserved + 2 <= MaxChat
    /\ chat' = [chat EXCEPT
                   !.message = << >>,
                   !.isLoading = TRUE,
                   !.chatHistory = Append(@, UserEntry(Trim(chat.message), FALSE)),
                   !.tutorRequests = Append(@, Trim(chat.message))]
    /\ UNCHANGED << courseVars, uiVars, answerRequests, auth, audio, review >>

\* POST /ai-tutor answered: the ChatExchange is recorded, the reply appended
TutorReply ==
    /\ chat.tutorRequests # << >>
    /\ chat' = [chat EXCEPT
                   !.tutorRequests = Tail(@),
                   !.exchanges = @ + 1,
                   !.chatHistory = Append(@, AiEntry),
                   !.isLoading = FALSE]
    /\ UNCHANGED << courseVars, uiVars, answerRequests, auth, audio, review >>

\* variant: the catch block has no finally
TutorFailedNoFinally ==
    /\ chat.tutorRequests # << >>
    /\ chat' = [chat EXCEPT
                   !.tutorRequests = Tail(@),
                   !.chatHistory = Append(@, ApologyEntry)]
    /\ UNCHANGED << courseVars, uiVars, answerRequests, auth, audio, review >>

\* POST /ai-tutor failed: catch appends the apology, finally resets isLoading
TutorFailed ==
    /\ chat.tutorRequests # << >>
    /\ chat' = [chat EXCEPT
                   !.tutorRequests = Tail(@),
                   !.chatHistory = Append(@, ApologyEntry),
                   !.isLoading = FALSE]
    /\ UNCHANGED << courseVars, uiVars, answerRequests, auth, audio, review >>

\* "Voice Message" button, microphone granted
startVoiceRecording ==
    /\ ~chat.isRecording
    /\ ~chat.isProcessing
    /\ chat' = [chat EXCEPT !.isRecording = TRUE]
    /\ UNCHANGED << courseVars, uiVars, answerRequests, auth, audio, review >>

\* "Stop Recording" button
stopVoiceRecording ==
    /\ chat.isRecording
    /\ Len(chat.chatHistory) + ChatReserved + 2 <= MaxChat
    /\ chat' = [chat EXCEPT !.isRecording = FALSE, !.isProcessing = TRUE]
    /\ UNCHANGED << courseVars, uiVars, answerRequests, auth, audio, review >>

\* mediaRecorder.onstop: processVoiceMessage
processVoiceMessage ==
    /\ chat.isProcessing
    /\ chat' = [chat EXCEPT
                   !.chatHistory = @ \o << UserEntry(<< "voice" >>, TRUE), AiEntry >>,
                   !.isProcessing = FALSE]
    /\ UNCHANGED << courseVars, uiVars, answerRequests, auth, audio, review >>

----------------------------------------------------------------------------
(* Audio playback: LessonPlayer.playAudio of the first two versions of the  *)
(* component tree (POST /tts/generate), useAudioSystem.playAudio of the     *)
(* latest one, and the backend's Audio Playback Adapter (design             *)
(* specification 4.5)                                                       *)

\* number of distinct texts that can be played
NumTexts == 2

Texts == 1..NumTexts

NoAudio == [ kind |-> "none" ]

\* useState defaults of the audio hook; nothing requested, the cache empty
AudioIdle(impl, speech, up) ==
    [ impl            |-> impl,     \* "tts": LessonPlayer.playAudio,
                                    \* "browser": useAudioSystem.playAudio
      speechSynthesis |-> speech,   \* 'speechSynthesis' in window
      providerUp      |-> up,       \* the external TTS provider answers
      cache           |-> {},       \* backend cache, keyed by exact text
      isPlaying       |-> FALSE,
      audioSource     |-> "",
      ttsRequest      |-> 0,        \* text of the POST /tts/generate in flight
      ttsResponse     |-> NoAudio,  \* its response on the way to the client
      playback        |-> NoAudio ] \* what the device is playing

\* getAudio(text): cache first, then the provider, else the fallback signal
getAudio(text, cache, up) ==
    IF text \in cache THEN [ kind |-> "url", source |-> "cached", text |-> text ]
    ELSE IF up THEN [ kind |-> "url", source |-> "elevenlabs", text |-> text ]
    ELSE [ kind |-> "signal", source |-> "browser", text |-> text ]

\* the provider goes down or comes back
ProviderToggle ==
    /\ audio' = [audio EXCEPT !.providerUp = ~@]
    /\ UNCHANGED << courseVars, uiVars, answerRequests, auth, chat, review >>

\* LessonPlayer.playAudio up to the await
playAudioTts(text) ==
    /\ audio.impl = "tts"
    /\ ~audio.isPlaying
    /\ audio' = [audio EXCEPT !.isPlaying = TRUE, !.ttsRequest = text]
    /\ UNCHANGED << courseVars, uiVars, answerRequests, auth, chat, review >>

\* POST /tts/generate handled by the backend
TtsGenerate ==
    /\ audio.ttsRequest # 0
    /\ LET resp == getAudio(audio.ttsRequest, audio.cache, audio.providerUp)
       IN  audio' = [audio EXCEPT
                       !.ttsRequest = 0,
                       !.ttsResponse = resp,
                       !.cache = IF resp.source = "elevenlabs"
                                 THEN @ \cup {resp.text} ELSE @]
    /\ UNCHANGED << courseVars, uiVars, answerRequests, auth, chat, review >>

\* POST /tts/generate failed: catch
TtsRequestFailed ==
    /\ audio.ttsRequest # 0
    /\ audio' = [audio EXCEPT !.ttsRequest = 0, !.isPlaying = FALSE]
    /\ UNCHANGED << courseVars, uiVars, answerRequests, auth, chat, review >>

\* variant: every response is played as an audio URL
TtsResponseNoFallback ==
    /\ audio.ttsResponse # NoAudio
    /\ audio' = [audio EXCEPT
                    !.ttsResponse = NoAudio,
                    !.audioSource = audio.ttsResponse.source,
                    !.playback = [ kind |-> "audio", text |-> audio.ttsResponse.text ]]
    /\ UNCHANGED << courseVars, uiVars, answerRequests, auth, chat, review >>

\* LessonPlayer.playAudio after the await
TtsResponse ==
    /\ audio.ttsResponse # NoAudio
    /\ LET resp == audio.ttsResponse
       IN  audio' =
             IF resp.source = "browser"
             THEN IF audio.speechSynthesis
                  THEN [audio EXCEPT
                          !.ttsResponse = NoAudio,
                          !.audioSource = resp.source,
                          !.playback = [ kind |-> "speech", text |-> resp.text ]]
                  ELSE [audio EXCEPT
                          !.ttsResponse = NoAudio,
                          !.audioSource = resp.source,
                          !.isPlaying = FALSE]
             ELSE [audio EXCEPT
                     !.ttsResponse = NoAudio,
                     !.audioSource = resp.source,
                     !.playback = [ kind |-> "audio", text |-> resp.text ]]
    /\ UNCHANGED << courseVars, uiVars, answerRequests, auth, chat, review >>

\* useAudioSystem.playAudio
playAudio(text) ==
    /\ audio.impl = "browser"
    /\ ~audio.isPlaying
    /\ audio' =
          IF audio.speechSynthesis
          THEN [audio EXCEPT
                  !.isPlaying = TRUE,
                  !.audioSource = "browser",
                  !.playback = [ kind |-> "speech", text |-> text ]]
          ELSE audio
    /\ UNCHANGED << courseVars, uiVars, answerRequests, auth, chat, review >>

\* utterance.onend / onerror, audio.onended / onerror
PlaybackEnded ==
    /\ audio.playback # NoAudio
    /\ audio' = [audio EXCEPT !.playback = NoAudio, !.isPlaying = FALSE]
    /\ UNCHANGED << courseVars, uiVars, answerRequests, auth, chat, review >>

----------------------------------------------------------------------------
(* AuthProvider *)

\* cap on the token pairs the backend issues (logins and refreshes)
MaxTokens == 2
\* cap on the logout() calls waiting for POST /auth/logout at once
MaxLogouts == 2

\* one tenth of a day, in milliseconds
TenthOfDayMs == 8640000

\* lifetime of the access token: 7 days, in milliseconds
TokenLifetime == 70 * TenthOfDayMs

\* "5 minutes before expiry", in milliseconds
RefreshLead == 300000

\* const refreshTime = 6.9 * 24 * 60 * 60 * 1000
refreshTime == 69 * TenthOfDayMs

\* setTimeout(attemptTokenRefresh, refreshTime): the callback keeps the
\* refreshToken of the render that created it
RefreshTimer(captured) == [ delay |-> refreshTime, refreshToken |-> captured ]

\* a signed-in learner after a page load: token pair 1 read from
\* localStorage, fetchCurrentUser answered, the refresh timer armed
AuthSignedIn ==
    [ user          |-> 1,
      loading       |-> FALSE,
      token         |-> 1,
      refreshToken  |-> 1,
      storedToken   |-> 1,      \* localStorage 'token'
      storedRefresh |-> 1,      \* localStorage 'refresh_token'
      header        |-> 1,      \* axios default Authorization header
      timers        |-> {RefreshTimer(1)},
      meToken       |-> 0,      \* fetchCurrentUser requests in flight
      meSession     |-> 0,      \* checkExistingSession requests in flight
      refreshes     |-> {},     \* refresh tokens of POST /auth/refresh in flight
      logouts       |-> 0,      \* logout() calls waiting for POST /auth/logout
      session       |-> FALSE,  \* backend: the OAuth session cookie is valid
      validRefresh  |-> {1},    \* backend: refresh tokens it still accepts
      issued        |-> 1 ]     \* backend: token pairs issued so far

\* a first visit: nothing stored, checkExistingSession sent on mount
AuthFirstVisit ==
    [ user          |-> 0,
      loading       |-> TRUE,
      token         |-> 0,
      refreshToken  |-> 0,
      storedToken   |-> 0,
      storedRefresh |-> 0,
      header        |-> 0,
      timers        |-> {},
      meToken       |-> 0,
      meSession     |-> 1,
      refreshes     |-> {},
      logouts       |-> 0,
      session       |-> FALSE,
      validRefresh  |-> {},
      issued        |-> 0 ]

\* AuthProvider.login(accessToken, userData, newRefreshToken), with the
\* token pair n; captured is the refreshToken its scheduleTokenRefresh sees;
\* the [token] effect then sends fetchCurrentUser
login(a, n, captured) ==
    [a EXCEPT !.storedToken = n,
              !.storedRefresh = n,
              !.token = n,
              !.refreshToken = n,
              !.user = 1,
              !.header = n,
              !.timers = @ \cup {RefreshTimer(captured)},
              !.meToken = IF a.token # n THEN @ + 1 ELSE @,
              !.validRefresh = @ \cup {n},
              !.issued = n]

\* the call of logout(): POST /auth/logout is sent
logoutCalled(a) == [a EXCEPT !.logouts = @ + 1]

\* LoginPage: POST /auth/login answered, login() called
PasswordLogin ==
    /\ auth.user = 0
    /\ auth.issued < MaxTokens
    /\ auth' = login(auth, auth.issued + 1, auth.refreshToken)
    /\ UNCHANGED << courseVars, uiVars, answerRequests, chat, audio, review >>

\* AuthProvider.processGoogleAuth: POST /auth/session answered
processGoogleAuth ==
    /\ auth.user = 0
    /\ ~auth.session
    /\ auth.issued < MaxTokens
    /\ auth' = [auth EXCEPT !.user = 1, !.session = TRUE, !.loading = FALSE,
                            !.issued = @ + 1]
    /\ UNCHANGED << courseVars, uiVars, answerRequests, chat, audio, review >>

\* AuthProvider.checkExistingSession: GET /auth/me answered or refused
checkExistingSession ==
    /\ auth.meSession > 0
    /\ auth' = [auth EXCEPT !.meSession = @ - 1,
                            !.user = IF auth.session THEN 1 ELSE @,
                            !.loading = FALSE]
    /\ UNCHANGED << courseVars, uiVars, answerRequests, chat, audio, review >>

\* AuthProvider.fetchCurrentUser: GET /auth/me answered
fetchCurrentUser ==
    /\ auth.meToken > 0
    /\ auth' = [auth EXCEPT !.meToken = @ - 1,
                            !.user = 1,
                            !.timers = @ \cup {RefreshTimer(auth.refreshToken)},
                            !.loading = FALSE]
    /\ UNCHANGED << courseVars, uiVars, answerRequests, chat, audio, review >>

\* AuthProvider.fetchCurrentUser: GET /auth/me refused
fetchCurrentUserFailed(status401) ==
    /\ auth.meToken > 0
    /\ auth.logouts < MaxLogouts
    /\ LET a == [auth EXCEPT !.meToken = @ - 1, !.loading = FALSE]
       IN  auth' = IF status401 /\ auth.refreshToken # 0
                   THEN [a EXCEPT !.refreshes = @ \cup {auth.refreshToken}]
                   ELSE logoutCalled(a)
    /\ UNCHANGED << courseVars, uiVars, answerRequests, chat, audio, review >>

\* the setTimeout callback: attemptTokenRefresh up to its await
attemptTokenRefresh(t) ==
    /\ t \in auth.timers
    /\ auth.logouts < MaxLogouts
    /\ LET a == [auth EXCEPT !.timers = @ \ {t}]
       IN  auth' = IF t.refreshToken = 0
                   THEN logoutCalled(a)
                   ELSE [a EXCEPT !.refreshes = @ \cup {t.refreshToken}]
    /\ UNCHANGED << courseVars, uiVars, answerRequests, chat, audio, review >>

\* attemptTokenRefresh: POST /auth/refresh answered, login() called
RefreshOk(rt) ==
    /\ rt \in auth.refreshes
    /\ rt \in auth.validRefresh
    /\ auth.issued < MaxTokens
    /\ auth' = login([auth EXCEPT !.refreshes = @ \ {rt}], auth.issued + 1, rt)
    /\ UNCHANGED << courseVars, uiVars, answerRequests, chat, audio, review >>

\* attemptTokenRefresh: POST /auth/refresh refused, logout() called
RefreshFailed(rt) ==
    /\ rt \in auth.refreshes
    /\ auth.logouts < MaxLogouts
    /\ auth' = logoutCalled([auth EXCEPT !.refreshes = @ \ {rt}])
    /\ UNCHANGED << courseVars, uiVars, answerRequests, chat, audio, review >>

\* "Logout" button
LogoutClick ==
    /\ auth.user # 0
    /\ auth.logouts < MaxLogouts
    /\ auth' = logoutCalled(auth)
    /\ UNCHANGED << courseVars, uiVars, answerRequests, chat, audio, review >>

\* variant: a failed backend logout skips the local cleanup
logoutKeepsOnFailure(ok) ==
    /\ auth.logouts > 0
    /\ auth' = IF ok
               THEN [auth EXCEPT !.logouts = @ - 1,
                                 !.session = FALSE,
                                 !.validRefresh = {},
                                 !.storedToken = 0,
                                 !.storedRefresh = 0,
                                 !.token = 0,
                                 !.refreshToken = 0,
                                 !.user = 0,
                                 !.header = 0,
                                 !.meSession = IF auth.token # 0 THEN @ + 1 ELSE @]
               ELSE [auth EXCEPT !.logouts = @ - 1]
    /\ UNCHANGED << courseVars, uiVars, answerRequests, chat, audio, review >>

\* AuthProvider.logout after its await: POST /auth/logout answered (ok: the
\* backend ends the session and revokes the refresh tokens) or failed; the
\* [token] effect then sends checkExistingSession
logout(ok) ==
    /\ auth.logouts > 0
    /\ auth' = [auth EXCEPT !.logouts = @ - 1,
                            !.session = IF ok THEN FALSE ELSE @,
                            !.validRefresh = IF ok THEN {} ELSE @,
                            !.storedToken = 0,
                            !.storedRefresh = 0,
                            !.token = 0,
                            !.refreshToken = 0,
                            !.user = 0,
                            !.header = 0,
                            !.meSession = IF auth.token # 0 THEN @ + 1 ELSE @]
    /\ UNCHANGED << courseVars, uiVars, answerRequests, chat, audio, review >>

----------------------------------------------------------------------------
(* NotificationBanner *)

\* the banner is on screen: `if (dismissed || !nudge) return null`
BannerShown == nudge.mounted /\ ~nudge.dismissed /\ nudge.nudge

\* NotificationBanner.fetchNudge answered; hasText: the nudge is not empty
fetchNudge(hasText) ==
    /\ nudge.fetching
    /\ nudge' = [nudge EXCEPT !.fetching = FALSE, !.nudge = hasText]
    /\ UNCHANGED << courseVars, otherVars, recorder >>

\* NotificationBanner.fetchNudge failed: the error is only logged
fetchNudgeFailed ==
    /\ nudge.fetching
    /\ nudge' = [nudge EXCEPT !.fetching = FALSE]
    /\ UNCHANGED << courseVars, otherVars, recorder >>

\* NotificationBanner.handleDismiss: the dismiss button
handleDismiss ==
    /\ BannerShown
    /\ nudge' = [nudge EXCEPT !.dismissed = TRUE, !.stored = TRUE, !.timer = TRUE]
    /\ UNCHANGED << courseVars, otherVars, recorder >>

\* the setTimeout callback of handleDismiss, 4 hours later
NudgeReset ==
    /\ nudge.timer
    /\ nudge' = [nudge EXCEPT !.timer = FALSE, !.stored = FALSE]
    /\ UNCHANGED << courseVars, otherVars, recorder >>

----------------------------------------------------------------------------
(* VoiceRecorder *)

\* getUserMedia calls that may be awaited at once
MaxMediaRequests == 2

\* outcomes of Math.random(), a number in [0, 1), in hundredths
Randoms == {0, 40, 41, 99}

\* confidences a voice analysis may report, in percent
Confidences == {0, 60, 100}

\* LessonPlayer renders the recorder once it has its letter
RecorderShown == page = "lesson" /\ letter # 0

\* record button while not recording: startRecording up to its await
\* (the button is disabled only by isProcessing)
startRecording ==
    /\ RecorderShown
    /\ ~recorder.isProcessing
    /\ ~recorder.isRecording
    /\ recorder.mediaRequests < MaxMediaRequests
    /\ recorder' = [recorder EXCEPT !.mediaRequests = @ + 1]
    /\ UNCHANGED << courseVars, otherVars, nudge >>

\* startRecording after getUserMedia resolved: a MediaRecorder is created
\* and started
MediaGranted ==
    /\ recorder.mediaRequests > 0
    /\ recorder' = [recorder EXCEPT !.mediaRequests = @ - 1,
                                    !.isRecording = TRUE]
    /\ UNCHANGED << courseVars, otherVars, nudge >>

\* startRecording after getUserMedia rejected: a toast only
MediaDenied ==
    /\ recorder.mediaRequests > 0
    /\ recorder' = [recorder EXCEPT !.mediaRequests = @ - 1]
    /\ UNCHANGED << courseVars, otherVars, nudge >>

\* record button while recording: stopRecording; the recorder's onstop
\* handler sends the audio
stopRecording ==
    /\ RecorderShown
    /\ ~recorder.isProcessing
    /\ recorder.isRecording
    /\ recorder' = [recorder EXCEPT !.isRecording = FALSE,
                                    !.isProcessing = TRUE,
                                    !.uploads = @ + 1]
    /\ UNCHANGED << courseVars, otherVars, nudge >>

\* sendAudioForFeedback: the request answered, onFeedback(response.data)
FeedbackResponse(match, confidence) ==
    /\ recorder.uploads > 0
    /\ recorder' = [recorder EXCEPT
                       !.uploads = @ - 1,
                       !.voiceFeedback = [kind |-> "server", match |-> match,
                                          confidence |-> confidence],
                       !.isProcessing = FALSE]
    /\ UNCHANGED << courseVars, otherVars, nudge >>

\* the feedback the catch block builds from two Math.random() draws
FallbackFeedback(r1, r2) ==
    [ kind       |-> "fallback",
      match      |-> r1 > 40,
      confidence |-> r2 \div 2 + 50 ]

\* sendAudioForFeedback: the request failed, catch then finally
FeedbackFailed(r1, r2) ==
    /\ recorder.uploads > 0
    /\ recorder' = [recorder EXCEPT !.uploads = @ - 1,
                                    !.voiceFeedback = FallbackFeedback(r1, r2),
                                    !.isProcessing = FALSE]
    /\ UNCHANGED << courseVars, otherVars, nudge >>

----------------------------------------------------------------------------
(* AppRoutes *)

\* the routes of the table: / /lesson/:letterId /quiz/:letterId /review /admin
Routes == {"dashboard", "lesson", "quiz", "review", "admin"}

\* what a route renders: a component, or <Navigate to=...>
Element(name) == [element |-> name, to |-> "none"]
Navigate(to) == [element |-> "Navigate", to |-> to]

\* AppRoutes with the admin route not guarded by the user
AppRoutesAdminOpen(a, route) ==
    IF a.loading
    THEN Element("Spinner")
    ELSE CASE route = "dashboard" ->
                  IF a.user # 0 THEN Element("Dashboard") ELSE Element("LandingPage")
           [] route = "lesson" ->
                  IF a.user # 0 THEN Element("LessonPlayer") ELSE Navigate("dashboard")
           [] route = "quiz" ->
                  IF a.user # 0 THEN Element("QuizPage") ELSE Navigate("dashboard")
           [] route = "review" ->
                  IF a.user # 0 THEN Element("ReviewMode") ELSE Navigate("dashboard")
           [] route = "admin" -> Element("AdminPanel")

\* AppRoutes: the element rendered at a route for the auth state a
AppRoutes(a, route) ==
    IF a.loading
    THEN Element("Spinner")
    ELSE CASE route = "dashboard" ->
                  IF a.user # 0 THEN Element("Dashboard") ELSE Element("LandingPage")
           [] route = "lesson" ->
                  IF a.user # 0 THEN Element("LessonPlayer") ELSE Navigate("dashboard")
           [] route = "quiz" ->
                  IF a.user # 0 THEN Element("QuizPage") ELSE Navigate("dashboard")
           [] route = "review" ->
                  IF a.user # 0 THEN Element("ReviewMode") ELSE Navigate("dashboard")
           [] route = "admin" ->
                  IF a.user # 0 THEN Element("AdminPanel") ELSE Navigate("dashboard")

\* a rendered <Navigate> replaces the location without a page load
RedirectHome ==
    /\ AppRoutes(auth, page).element = "Navigate"
    /\ page' = AppRoutes(auth, page).to
    /\ UNCHANGED << otherVars, uiVars, letterId, store, letter, redirectTimer,
                    fetches, dashVars, quizVars >>

----------------------------------------------------------------------------
(* Specifications *)

\* nothing in flight and no component outside the course pages in use
OtherIdle ==
    /\ answerRequests = << >>
    /\ auth = AuthSignedIn
    /\ chat = ChatClosed
    /\ audio = AudioIdle("browser", TRUE, TRUE)
    /\ review = ReviewUnmounted
    /\ nudge = NudgeUnmounted(FALSE)
    /\ recorder = RecorderIdle

\* the whole course: a signed-in learner with no progress opens the dashboard
Init ==
    /\ page = "dashboard"
    /\ letterId = 0
    /\ store = {}
    /\ lessons = << >>
    /\ progress = << >>
    /\ loading = TRUE
    /\ isLocked = Unmounted
    /\ letter = 0
    /\ redirectTimer = FALSE
    /\ fetches = 0
    /\ options = << >>
    /\ selectedAnswer = 0
    /\ showResult = FALSE
    /\ result = NoResult
    /\ showRetry = FALSE
    /\ OtherIdle

Next ==
    \/ FetchData
    \/ FetchDataFailed
    \/ \E id \in Letters : ClickLetterCard(id)
    \/ FetchLetter
    \/ FetchLetterFailed
    \/ markAsCompleted
    \/ RedirectToQuiz
    \/ \E direction \in {"prev", "next"} : navigateToLetter(direction)
    \/ BackToHome
    \/ fetchQuizData
    \/ fetchQuizDataFailed
    \/ \E id \in Letters : SelectAnswer(id)
    \/ SubmitAnswer(CourseAttempts)
    \/ retryQuiz
    \/ nextAction

Spec == Init /\ [][Next]_vars

\* one quiz page: /quiz/:letterId opened with or without a completed lesson
InitQuiz ==
    /\ page = "quiz"
    /\ letterId \in Letters
    /\ store \in {{}, {CompletionPayload(letterId)}}
    /\ lessons = << >>
    /\ progress = << >>
    /\ loading = TRUE
    /\ isLocked = Unmounted
    /\ letter = 0
    /\ redirectTimer = FALSE
    /\ fetches = 1
    /\ options = << >>
    /\ selectedAnswer = 0
    /\ showResult = FALSE
    /\ result = NoResult
    /\ showRetry = FALSE
    /\ OtherIdle

NextQuiz ==
    \/ fetchQuizData
    \/ fetchQuizDataFailed
    \/ \E id \in Letters : SelectAnswer(id)
    \/ SubmitAnswer(MaxAttempts)
    \/ retryQuiz

SpecQuiz == InitQuiz /\ [][NextQuiz]_vars

\* a record as a failed first quiz submission leaves it
FailedRecord(id) ==
    QuizRecord({}, id, submitAnswer(id, 0, 0, FALSE))

\* the dashboard over any progress set: per letter no record, a record that
\* is not completed, or a completed one
InitGate ==
    /\ page = "dashboard"
    /\ letterId = 0
    /\ \E kind \in [Letters -> {"none", "open", "done"}] :
           store = {FailedRecord(n) : n \in {m \in Letters : kind[m] = "open"}}
                   \cup {CompletionPayload(n) : n \in {m \in Letters : kind[m] = "done"}}
    /\ lessons = << >>
    /\ progress = << >>
    /\ loading = TRUE
    /\ isLocked = Unmounted
    /\ letter = 0
    /\ redirectTimer = FALSE
    /\ fetches = 0
    /\ options = << >>
    /\ selectedAnswer = 0
    /\ showResult = FALSE
    /\ result = NoResult
    /\ showRetry = FALSE
    /\ OtherIdle

NextGate ==
    \/ FetchData
    \/ FetchDataFailed
    \/ \E id \in Letters : ClickLetterCard(id)

SpecGate == InitGate /\ [][NextGate]_vars

\* the review page over any progress set: per letter no record, a record not
\* completed, or a completed one updated recently, long ago or longer ago
InitReview ==
    /\ page = "review"
    /\ letterId = 0
    /\ \E kind \in [1..ReviewCatalog ->
                       {"none", "open", "recent", "old", "older"}] :
           store = {OpenRecord(n) : n \in {m \in 1..ReviewCatalog : kind[m] = "open"}}
               \cup {ReviewedRecord(n, RecentDay) :
                        n \in {m \in 1..ReviewCatalog : kind[m] = "recent"}}
               \cup {ReviewedRecord(n, OldDay) :
                        n \in {m \in 1..ReviewCatalog : kind[m] = "old"}}
               \cup {ReviewedRecord(n, OlderDay) :
                        n \in {m \in 1..ReviewCatalog : kind[m] = "older"}}
    /\ lessons = << >>
    /\ progress = << >>
    /\ loading = TRUE
    /\ isLocked = Unmounted
    /\ letter = 0
    /\ redirectTimer = FALSE
    /\ fetches = 0
    /\ options = << >>
    /\ selectedAnswer = 0
    /\ showResult = FALSE
    /\ result = NoResult
    /\ showRetry = FALSE
    /\ OtherIdle

NextReview ==
    \/ fetchReviewQueue
    \/ fetchReviewQueueFailed

SpecReview == InitReview /\ [][NextReview]_vars

\* the review page of a learner who completed letters 1-5 some time ago
InitMiniQuiz ==
    /\ InitReview
    /\ store = {ReviewedRecord(n, OldDay) : n \in 1..5}

NextMiniQuiz ==
    \/ fetchReviewQueue
    \/ fetchReviewQueueFailed
    \/ \E i \in 1..ReviewCatalog : startReview(i)
    \/ \E i \in 1..ReviewCatalog : startReviewFailed(i)
    \/ \E id \in 1..ReviewCatalog : SelectReviewAnswer(id)
    \/ submitReviewAnswer
    \/ completeReview

SpecMiniQuiz == InitMiniQuiz /\ [][NextMiniQuiz]_vars

\* the tutor dialog on the dashboard
NextChat ==
    \/ \E m \in Messages : TypeMessage(m)
    \/ sendMessage
    \/ TutorReply
    \/ TutorFailed
    \/ startVoiceRecording
    \/ stopVoiceRecording
    \/ processVoiceMessage

SpecChat == Init /\ [][NextChat]_vars

\* a lesson page with its audio button, in either version of playAudio, on
\* a device with or without speech synthesis
InitAudio ==
    /\ page = "lesson"
    /\ letterId = 1
    /\ store = {}
    /\ lessons = << >>
    /\ progress = << >>
    /\ loading = TRUE
    /\ isLocked = Unmounted
    /\ letter = 1
    /\ redirectTimer = FALSE
    /\ fetches = 0
    /\ options = << >>
    /\ selectedAnswer = 0
    /\ showResult = FALSE
    /\ result = NoResult
    /\ showRetry = FALSE
    /\ answerRequests = << >>
    /\ auth = AuthSignedIn
    /\ chat = ChatClosed
    /\ review = ReviewUnmounted
    /\ nudge = NudgeUnmounted(FALSE)
    /\ recorder = RecorderIdle
    /\ \E impl \in {"tts", "browser"}, speech \in BOOLEAN, up \in BOOLEAN :
           audio = AudioIdle(impl, speech, up)

NextAudio ==
    \/ ProviderToggle
    \/ \E text \in Texts : playAudioTts(text)
    \/ TtsGenerate
    \/ TtsRequestFailed
    \/ TtsResponse
    \/ \E text \in Texts : playAudio(text)
    \/ PlaybackEnded

SpecAudio == InitAudio /\ [][NextAudio]_vars

\* the session of one browser, from a first visit or a stored token pair
InitAuth ==
    /\ page = "dashboard"
    /\ letterId = 0
    /\ store = {}
    /\ lessons = << >>
    /\ progress = << >>
    /\ loading = TRUE
    /\ isLocked = Unmounted
    /\ letter = 0
    /\ redirectTimer = FALSE
    /\ fetches = 0
    /\ options = << >>
    /\ selectedAnswer = 0
    /\ showResult = FALSE
    /\ result = NoResult
    /\ showRetry = FALSE
    /\ answerRequests = << >>
    /\ auth \in {AuthFirstVisit, AuthSignedIn}
    /\ chat = ChatClosed
    /\ audio = AudioIdle("browser", TRUE, TRUE)
    /\ review = ReviewUnmounted
    /\ nudge = NudgeUnmounted(FALSE)
    /\ recorder = RecorderIdle

NextAuth ==
    \/ PasswordLogin
    \/ processGoogleAuth
    \/ checkExistingSession
    \/ fetchCurrentUser
    \/ \E status401 \in BOOLEAN : fetchCurrentUserFailed(status401)
    \/ \E t \in auth.timers : attemptTokenRefresh(t)
    \/ \E rt \in 1..MaxTokens : RefreshOk(rt)
    \/ \E rt \in 1..MaxTokens : RefreshFailed(rt)
    \/ LogoutClick
    \/ \E ok \in BOOLEAN : logout(ok)

SpecAuth == InitAuth /\ [][NextAuth]_vars

\* the quiz page of the first letter opened without a record, with the
\* submit handler split at its await
InitSubmit ==
    /\ InitQuiz
    /\ letterId = 1
    /\ store = {}

NextSubmit ==
    \/ fetchQuizData
    \/ fetchQuizDataFailed
    \/ \E id \in Letters : SelectAnswer(id)
    \/ SendAnswer
    \/ \E i \in 1..MaxPending : AnswerResponse(i)
    \/ \E i \in 1..MaxPending : AnswerFailed(i)
    \/ retryQuiz

SpecSubmit == InitSubmit /\ [][NextSubmit]_vars

\* the quiz page of the first letter over a catalog with more letters than
\* one quiz shows, where a regenerated quiz can drop a letter
NextRetry ==
    \/ fetchQuizDataFrom(LargeCatalog)
    \/ fetchQuizDataFailed
    \/ \E id \in 1..LargeCatalogSize : SelectAnswer(id)
    \/ SubmitAnswer(SubmitAttempts)
    \/ retryQuiz

SpecRetry == InitSubmit /\ [][NextRetry]_vars

\* the dashboard with its banner, and the lesson pages reached from it
NextNudge ==
    \/ FetchData
    \/ FetchDataFailed
    \/ \E id \in Letters : ClickLetterCard(id)
    \/ FetchLetter
    \/ markAsCompleted
    \/ \E direction \in {"prev", "next"} : navigateToLetter(direction)
    \/ BackToHome
    \/ \E hasText \in BOOLEAN : fetchNudge(hasText)
    \/ fetchNudgeFailed
    \/ handleDismiss
    \/ NudgeReset

SpecNudge == Init /\ [][NextNudge]_vars

\* the lesson page of the first letter with its voice recorder
InitVoice ==
    /\ page = "lesson"
    /\ letterId = 1
    /\ store = {}
    /\ lessons = << >>
    /\ progress = << >>
    /\ loading = TRUE
    /\ isLocked = Unmounted
    /\ letter = 0
    /\ redirectTimer = FALSE
    /\ fetches = 1
    /\ options = << >>
    /\ selectedAnswer = 0
    /\ showResult = FALSE
    /\ result = NoResult
    /\ showRetry = FALSE
    /\ OtherIdle

NextVoice ==
    \/ FetchLetter
    \/ \E direction \in {"prev", "next"} : navigateToLetter(direction)
    \/ startRecording
    \/ MediaGranted
    \/ MediaDenied
    \/ stopRecording
    \/ \E match \in BOOLEAN, confidence \in Confidences :
           FeedbackResponse(match, confidence)
    \/ \E r1, r2 \in Randoms : FeedbackFailed(r1, r2)

SpecVoice == InitVoice /\ [][NextVoice]_vars

\* any route opened on a first visit or by a signed-in learner
InitRoutes ==
    /\ page \in Routes
    /\ letterId = IF page \in {"lesson", "quiz"} THEN 1 ELSE 0
    /\ store = {}
    /\ lessons = << >>
    /\ progress = << >>
    /\ loading = TRUE
    /\ isLocked = Unmounted
    /\ letter = 0
    /\ redirectTimer = FALSE
    /\ fetches = 0
    /\ options = << >>
    /\ selectedAnswer = 0
    /\ showResult = FALSE
    /\ result = NoResult
    /\ showRetry = FALSE
    /\ answerRequests = << >>
    /\ auth \in {AuthFirstVisit, AuthSignedIn}
    /\ chat = ChatClosed
    /\ audio = AudioIdle("browser", TRUE, TRUE)
    /\ review = ReviewUnmounted
    /\ nudge = NudgeUnmounted(FALSE)
    /\ recorder = RecorderIdle

NextRoutes ==
    \/ NextAuth
    \/ RedirectHome

SpecRoutes == InitRoutes /\ [][NextRoutes]_vars

----------------------------------------------------------------------------
(* Properties *)

\* the store holds a completed record for the letter
Completed(st, id) == \E r \in st : r.letter_id = id /\ r.completed

\* the dashboard has rendered its letter grid
GridShown == page = "dashboard" /\ ~loading /\ DOMAIN isLocked = Letters

\* C1: on the rendered dashboard a letter n is accessible exactly when n = 1
\* or the progress set holds a completed record for letter n-1; a missing
\* record for n-1 gives "locked", for every letter and every progress set.
C1_GateRule ==
    GridShown =>
        \A n \in Letters :
            (~isLocked[n]) <=> (n = 1 \/ Completed(store, n - 1))

\* a letter is locked behind a record that exists but is not completed, while
\* another letter is unlocked by a completed record
C1_Witness ==
    /\ GridShown
    /\ \E n \in Letters :
           /\ n > 1
           /\ isLocked[n]
           /\ RecordOf(store, n - 1) # NoRecord
    /\ \E n \in Letters : n > 1 /\ ~isLocked[n]
    /\ \E n \in Letters : n > 1 /\ isLocked[n] /\ RecordOf(store, n - 1) = NoRecord

\* C2: in every reachable progress state, a letter n > 1 is unlocked only if
\* letter n-1 is itself unlocked and its record is completed.
C2_UnlockChain ==
    GridShown =>
        \A n \in Letters :
            (n > 1 /\ ~isLocked[n]) =>
                (~isLocked[n - 1] /\ Completed(store, n - 1))

\* C3: the lesson page of a letter n > 1 is opened only when the record of
\* letter n-1 is completed.
C3_NoSkipping ==
    (page = "lesson" /\ letterId > 1) => Completed(store, letterId - 1)

\* a quiz submission that passed has just been answered for letter n
PassedQuizStep(n) ==
    /\ page = "quiz"
    /\ letterId = n
    /\ ~showResult
    /\ showResult'
    /\ result'.can_proceed

\* C4: a letter's record becomes completed only by a quiz submission for that
\* letter that reached the pass threshold.
C4_CompletedOnlyByPassedQuiz ==
    [][\A n \in Letters :
          (Completed(store', n) /\ ~Completed(store, n)) => PassedQuizStep(n)]_vars

\* C5: a letter's xp_earned grows only by a passing quiz submission for that
\* letter, and only while its record is not yet completed.
C5_XpOnlyByPassedQuiz ==
    [][\A n \in Letters :
          PriorXp(store', n) > PriorXp(store, n) =>
              (PassedQuizStep(n) /\ ~Completed(store, n))]_vars

RetryBranchShown == ResultShown /\ ~result.can_proceed

\* C7: for every submission can_proceed is true iff score >= min_score_required,
\* the threshold is 80, and the retry/review branch is shown exactly when
\* can_proceed is false.
C7_CanProceedIffThreshold ==
    ResultShown =>
        /\ result.min_score_required = 80
        /\ result.can_proceed <=> (result.score >= result.min_score_required)
        /\ showRetry <=> ~result.can_proceed
        /\ RetryBranchShown <=> (result.score < 80)

\* a failed retry: the result is under the threshold and the retry branch shows
C7_Witness ==
    /\ ResultShown
    /\ PriorAttempts(store, letterId) >= 2
    /\ result.score < result.min_score_required
    /\ ~result.can_proceed
    /\ showRetry
    /\ RetryBranchShown

\* C8: an incorrect answer scores 0 and cannot proceed, whatever the number
\* of prior attempts.
C8_IncorrectScoresZero ==
    (ResultShown /\ selectedAnswer # letterId) =>
        (~result.correct /\ result.score = 0 /\ ~result.can_proceed)

\* an incorrect answer after several attempts
C8_Witness ==
    /\ ResultShown
    /\ selectedAnswer # letterId
    /\ PriorAttempts(store, letterId) >= 3
    /\ result.score = 0

\* C9: a correct answer submitted while the letter has no record scores 100,
\* can proceed, and earns XP.
C9_FirstCorrectAttempt ==
    [][(QuestionShown /\ showResult' /\ selectedAnswer = letterId
            /\ RecordOf(store, letterId) = NoRecord) =>
          /\ result'.score = 100
          /\ result'.can_proceed
          /\ result'.xp_earned > 0
          /\ PriorXp(store', letterId) > PriorXp(store, letterId)]_vars

\* the result of a correct first submission that created the record
C9_Witness ==
    /\ ResultShown
    /\ result.correct
    /\ PriorAttempts(store, letterId) = 1
    /\ result.xp_earned > 0

\* the score a correct answer is awarded after the given prior attempts
CorrectScoreAfter(priorAttempts) ==
    submitAnswer(1, 1, priorAttempts, FALSE).score

\* C10: the score awarded to a correct answer is never higher than the score
\* awarded after fewer prior attempts, and on a retry it is strictly lower
\* than on the first attempt.
C10_RetryPenalty ==
    (ResultShown /\ result.correct) =>
        LET prior == PriorAttempts(store, letterId) - 1
        IN  /\ \A a \in 0..prior : result.score <= CorrectScoreAfter(a)
            /\ prior >= 1 => result.score < CorrectScoreAfter(0)

\* a correct answer on the second retry, scored under the first-attempt score
C10_Witness ==
    /\ ResultShown
    /\ result.correct
    /\ PriorAttempts(store, letterId) = 3
    /\ result.score < 100

\* the state of the client-observed quiz state machine
Phase(shown, res) ==
    IF ~shown THEN "QuizPending"
    ELSE IF res.can_proceed THEN "Passed" ELSE "Failed"

\* C11: on the quiz page the only transitions are QuizPending -> Passed,
\* QuizPending -> Failed and Failed -> QuizPending; the step out of Failed
\* clears selectedAnswer, result, showResult and showRetry and requests a
\* newly generated option set.
C11_QuizStateMachine ==
    [][(page = "quiz" /\ page' = "quiz") =>
          LET from == Phase(showResult, result)
              to   == Phase(showResult', result')
          IN  /\ \/ from = to
                 \/ << from, to >> \in { << "QuizPending", "Passed" >>,
                                         << "QuizPending", "Failed" >>,
                                         << "Failed", "QuizPending" >> }
              /\ (from = "Failed" /\ to = "QuizPending") =>
                     /\ selectedAnswer' = 0
                     /\ result' = NoResult
                     /\ ~showRetry'
                     /\ fetches' = fetches + 1]_vars

\* C12: with no answer selected no request is sent, and while the question
\* is shown with no request in flight either, result, showResult, showRetry
\* and the stored records stay as they are; every request sent carries the
\* answer selected at the click.
C12_NoSelectionNoSubmission ==
    [][/\ Len(answerRequests') > Len(answerRequests) =>
             /\ selectedAnswer # 0
             /\ answerRequests' = Append(answerRequests, selectedAnswer)
       /\ (QuestionShown /\ selectedAnswer = 0 /\ answerRequests = << >>) =>
             /\ answerRequests' = << >>
             /\ UNCHANGED << store, result, showResult, showRetry >>]_vars

\* the question is shown after a retry with no option selected and nothing
\* in flight
C12_Witness ==
    /\ QuestionShown
    /\ selectedAnswer = 0
    /\ answerRequests = << >>
    /\ result = NoResult
    /\ PriorAttempts(store, letterId) >= 2

\* the review page shows the queue it was sent
QueueShown == page = "review" /\ ~review.loading /\ review.toast = "none"

\* the position of a letter in the review queue, 0 when it is absent
QueuePos(id) ==
    LET q == review.reviewItems
    IN  IF \E i \in 1..Len(q) : q[i].unit_id = id
        THEN CHOOSE i \in 1..Len(q) : q[i].unit_id = id
        ELSE 0

\* C13: every item of the review queue refers to a letter whose record is
\* completed; letters with a record not completed or with no record never
\* appear.
C13_QueueOnlyCompleted ==
    page = "review" =>
        \A i \in 1..Len(review.reviewItems) :
            Completed(store, review.reviewItems[i].unit_id)

\* the queue is shown non-empty while a stale record with score 0 that is
\* not completed, and a letter with no record, stay out of it
C13_Witness ==
    /\ QueueShown
    /\ Len(review.reviewItems) >= 2
    /\ \E r \in store : ~r.completed /\ FailsScore(r) /\ Stale(r, Now)
                         /\ QueuePos(r.letter_id) = 0
    /\ \E n \in 1..ReviewCatalog : RecordOf(store, n) = NoRecord

\* the store is the scenario: letters 1-5 completed, the others not
Scenario ==
    /\ \A n \in 1..5 : Completed(store, n)
    /\ \A n \in 6..ReviewCatalog : ~Completed(store, n)

\* C14: in the queue an item under the comfortable-mastery threshold comes
\* before every item that is only stale; within each group lower scores
\* come first and, at equal scores, older last_updated first.  With letters
\* 1-5 completed at scores 100, 95, 70, 85, 60, letters 3 and 5 are queued,
\* both before letter 2 when it is queued, and no letter from 6 on is queued.
C14_QueueOrder ==
    QueueShown =>
        LET q == review.reviewItems
        IN  /\ \A i, j \in 1..Len(q) :
                   i < j =>
                     /\ (q[j].score < ComfortableThreshold)
                            => (q[i].score < ComfortableThreshold)
                     /\ q[i].score <= q[j].score
                     /\ (q[i].score = q[j].score)
                            => (q[i].last_updated <= q[j].last_updated)
            /\ \A i \in 1..Len(q) :
                   (q[i].reason = "low_score") <=> (q[i].score < ComfortableThreshold)
            /\ Scenario =>
                   /\ QueuePos(3) > 0
                   /\ QueuePos(5) > 0
                   /\ QueuePos(5) < QueuePos(3)
                   /\ QueuePos(2) > 0 =>
                          (QueuePos(3) < QueuePos(2) /\ QueuePos(5) < QueuePos(2))
                   /\ \A n \in 6..ReviewCatalog : QueuePos(n) = 0

\* the scenario with letter 2 stale: queued behind letters 5, 3 and 4
C14_Witness ==
    /\ QueueShown
    /\ Scenario
    /\ QueuePos(5) = 1
    /\ QueuePos(3) = 2
    /\ QueuePos(4) = 3
    /\ QueuePos(2) = 4
    /\ RecordOf(store, 6) # NoRecord

\* a tutor request has just ended without a ChatExchange being recorded
TutorFailureStep ==
    /\ Len(chat'.tutorRequests) < Len(chat.tutorRequests)
    /\ chat'.exchanges = chat.exchanges

\* C15: a failed tutor request appends exactly one apology entry to the
\* chat and nothing else, records no exchange, leaves no request in flight
\* (no retry) and resets isLoading.
C15_TutorFailure ==
    [][TutorFailureStep =>
          /\ chat'.chatHistory = Append(chat.chatHistory, ApologyEntry)
          /\ chat'.exchanges = chat.exchanges
          /\ chat'.tutorRequests = << >>
          /\ ~chat'.isLoading]_vars

\* the chat ends with a typed question answered by the apology only, after
\* an earlier turn that was answered
C15_Witness ==
    LET h == chat.chatHistory
    IN  /\ Len(h) = 4
        /\ h[2].type = "ai"
        /\ h[3].type = "user"
        /\ h[4] = ApologyEntry
        /\ ~chat.isLoading
        /\ chat.tutorRequests = << >>
        /\ chat.exchanges = 1

\* the device starts speaking a text with on-device speech synthesis
SpeechStarts ==
    /\ audio'.playback # audio.playback
    /\ audio'.playback.kind = "speech"

\* the backend has signalled a provider failure and the client handles it
FallbackHandled ==
    /\ audio.ttsResponse # NoAudio
    /\ audio.ttsResponse.source = "browser"
    /\ audio'.ttsResponse = NoAudio

\* C16: a response that signals the provider failure makes the device speak
\* that text with on-device speech synthesis, source "browser", whenever
\* the device has speech synthesis; without it playback stops.
C16_ProviderFailureFallsBack ==
    [][FallbackHandled =>
          /\ audio'.audioSource = "browser"
          /\ IF audio.speechSynthesis
             THEN /\ audio'.playback =
                        [ kind |-> "speech", text |-> audio.ttsResponse.text ]
                  /\ audio'.isPlaying
             ELSE /\ audio'.playback = NoAudio
                  /\ ~audio'.isPlaying]_vars

\* the device speaks a text after the provider failed for it
C16_Witness ==
    /\ audio.impl = "tts"
    /\ audio.playback.kind = "speech"
    /\ audio.audioSource = "browser"
    /\ audio.isPlaying
    /\ ~audio.providerUp
    /\ audio.playback.text \notin audio.cache
    /\ audio.cache # {}

\* C17: on-device speech synthesis starts only on the fallback signal of
\* the backend, and the backend gives that signal only for a text that is
\* not cached while the provider is down.
C17_SpeechOnlyWhenProviderUnavailable ==
    [][/\ SpeechStarts => FallbackHandled
       /\ (audio'.ttsResponse # audio.ttsResponse
              /\ audio'.ttsResponse # NoAudio
              /\ audio'.ttsResponse.source = "browser") =>
             (~audio.providerUp /\ audio'.ttsResponse.text \notin audio.cache)]_vars

\* C18: a record's attempts is at least 1, and no step removes a record or
\* lowers its attempts.
C18_AttemptsMonotonic ==
    [][\A n \in Letters :
          RecordOf(store, n) # NoRecord =>
              /\ RecordOf(store, n).attempts >= 1
              /\ RecordOf(store', n) # NoRecord
              /\ RecordOf(store', n).attempts >= RecordOf(store, n).attempts]_vars

\* C19: every armed refresh timer fires 5 minutes before the 7-day expiry
\* of the access token, i.e. 7 days minus 5 minutes after it was set.
C19_RefreshFiveMinutesBeforeExpiry ==
    \A t \in auth.timers : t.delay = TokenLifetime - RefreshLead

\* the local session is gone: nothing stored, no state, no header
LoggedOutLocally ==
    /\ auth.storedToken = 0
    /\ auth.storedRefresh = 0
    /\ auth.token = 0
    /\ auth.refreshToken = 0
    /\ auth.user = 0
    /\ auth.header = 0

\* C20: the step that finishes a logout leaves no stored token or refresh
\* token, token, refreshToken and user null and no Authorization header,
\* whether the backend logout succeeded or failed.
C20_LogoutClearsSession ==
    [][auth'.logouts < auth.logouts =>
          /\ auth'.storedToken = 0
          /\ auth'.storedRefresh = 0
          /\ auth'.token = 0
          /\ auth'.refreshToken = 0
          /\ auth'.user = 0
          /\ auth'.header = 0]_vars

\* signed out locally after a token login and a Google login, while the
\* backend still holds the session its failed logout did not end
C20_Witness ==
    /\ LoggedOutLocally
    /\ auth.logouts = 0
    /\ auth.issued = 2
    /\ auth.session

\* C24: on the quiz page a selected answer is always one of the options on
\* screen, so no answer outside the displayed options can be submitted.
C24_SelectedIsDisplayed ==
    (page = "quiz" /\ selectedAnswer # 0) => selectedAnswer \in Range(options)

\* C25: a request is sent only while no other answer request is in flight:
\* at most one POST /quiz/answer per displayed question.
C25_OneRequestPerQuiz ==
    [][Len(answerRequests') > Len(answerRequests) => answerRequests = << >>]_vars

\* C27: the completed letters are a prefix 1..k of the alphabet, and the
\* rendered dashboard shows no letter both locked and completed and no
\* unlocked letter after a locked one.
C27_CompletedIsPrefix ==
    /\ \A n \in Letters :
           Completed(store, n) => \A m \in 1..(n - 1) : Completed(store, m)
    /\ GridShown =>
           \A n \in Letters :
               /\ ~(isLocked[n] /\ Completed(store, n))
               /\ isLocked[n] => \A m \in Letters : m > n => isLocked[m]

\* C26: in chatHistory every typed user entry is directly followed by its
\* reply entry (type "ai" or "error"), or is the last entry while its
\* request is in flight; no step removes or reorders entries.
C26_TypedEntryThenReply ==
    LET h == chat.chatHistory
    IN  \A i \in 1..Len(h) :
            (h[i].type = "user" /\ ~h[i].isVoice) =>
                IF i = Len(h)
                THEN chat.tutorRequests # << >>
                ELSE h[i + 1].type \in {"ai", "error"}

\* the step is an explicit login: the login form or the Google sign-in
ExplicitLoginStep ==
    \/ /\ auth'.issued = auth.issued + 1
       /\ auth'.refreshes = auth.refreshes
    \/ /\ auth'.session
       /\ ~auth.session

\* C23: once a logout has completed and left the session cleared, the user
\* and the token stay null until an explicit login: no refresh timer or
\* request from before the logout restores them.
C23_LogoutIsFinal ==
    [][(LoggedOutLocally /\ auth.logouts = 0 /\ auth.issued > 0
            /\ (auth'.user # 0 \/ auth'.token # 0))
          => ExplicitLoginStep]_vars

\* C21: the review mini-quiz shows exactly 4 options, pairwise distinct,
\* exactly one of them the letter under review.
C21_ReviewQuizHasFourOptions ==
    review.currentReview # 0 =>
        LET o == review.quizOptions
        IN  /\ Len(o) = 4
            /\ \A i, j \in 1..Len(o) : o[i] = o[j] => i = j
            /\ Cardinality({i \in 1..Len(o) : o[i] = review.currentReview}) = 1

\* C22: a dismissed banner is reset after 4 hours whatever happens in
\* between: while the flag 'nudge_dismissed' is stored, the timer that
\* clears it is armed.
C22_DismissedFlagHasResetTimer ==
    nudge.stored => nudge.timer

\* C28: the feedback delivered when the voice-feedback request failed
\* never reports a match: match is false and confidence is 0.
C28_FallbackReportsNoMatch ==
    recorder.voiceFeedback.kind = "fallback" =>
        /\ ~recorder.voiceFeedback.match
        /\ recorder.voiceFeedback.confidence = 0

\* C30: the recorder is in exactly one of idle, recording and processing:
\* isRecording and isProcessing are never both true.
C30_OneRecorderState ==
    ~(recorder.isRecording /\ recorder.isProcessing)

\* the routes that need a signed-in user, and what they render for one
ProtectedRoutes == {"lesson", "quiz", "review", "admin"}
ProtectedElements == {"LessonPlayer", "QuizPage", "ReviewMode", "AdminPanel"}

\* C29: LessonPlayer, QuizPage, ReviewMode and AdminPanel are rendered only
\* when loading is false and user is non-null; with user null the route
\* table renders /lesson/:id, /quiz/:id, /review and /admin as a redirect
\* to '/'.
C29_ProtectedRoutesNeedUser ==
    LET r == AppRoutes(auth, page)
    IN  /\ r.element \in ProtectedElements => (~auth.loading /\ auth.user # 0)
        /\ (page \in ProtectedRoutes /\ auth.user = 0) =>
               \/ r = Element("Spinner") /\ auth.loading
               \/ r = Navigate("dashboard")

\* a learner who had signed in is on /admin with user null again: the
\* route renders the redirect
C29_Witness ==
    /\ page = "admin"
    /\ auth.user = 0
    /\ ~auth.loading
    /\ auth.issued > 0
    /\ AppRoutes(auth, page).element = "Navigate"

====
